---- MODULE Spec2Model ----
(***************************************************************************)
(* Race orchestration core of browserballad's competition server:          *)
(*   src/competition/race_manager.py  race registry and race state machine *)
(*   src/competition/server.py        run registry, event stream, API      *)
(*   src/competition/agent_runner.py  the agent executor's event sequence  *)
(*   src/competition/llm.py           the judge's response normalisation   *)
(*                                                                         *)
(* The server runs on one asyncio event loop.  A step of the model is the  *)
(* code a coroutine or callback runs between two suspension points.  An    *)
(* await of Queue.put on an unbounded queue, of Queue.get on a non-empty   *)
(* queue, or of a coroutine that itself never suspends (handle_run_event,  *)
(* _maybe_finalize) does not suspend, so the dispatch loop keeps the event *)
(* loop from one event to the next until its queue is empty: cur names the *)
(* dispatch loop that is in the middle of such a drain.                    *)
(*                                                                         *)
(* An Optional value is a sequence of length at most one: None is <<>>,    *)
(* a value v is <<v>>.                                                     *)
(***************************************************************************)
EXTENDS Integers, Sequences, FiniteSets, TLC

\* ------------------------------------------------------------- bounds
MaxTime == 2       \* clock readings are 1..MaxTime
MaxLogs == 1       \* log records an executor emits while the agent runs

\* the identifiers uuid4 may return
RaceIds == {"race-1"}
RunIds == {"run-1", "run-2"}
ListenerIds == {"listener-1", "listener-2"}

None == <<>>
Some(v) == <<v>>
IsNone(o) == o = <<>>
Val(o) == o[1]

\* python's `a or b` on an Optional[float] timestamp: None and 0.0 are falsy
Truthy(ts) == ts # None /\ Val(ts) # 0
\* (mutant) the timestamp is overwritten whether set or not
OrElse_overwrites(ts, now) == Some(now)

OrElse(ts, now) == IF Truthy(ts) THEN ts ELSE Some(now)

\* python's `submission or ""`: None and "" both give ""
\* (mutant) an absent submission stays absent
OrEmpty_keeps_absent(s) == s

OrEmpty(s) == IF s = None \/ s = Some("") THEN Some("") ELSE s

\* ------------------------------------------------------------- inputs
TaskTypes == {"text_entry", "confirmation"}
Submissions == {None, Some(""), Some("Paris")}
AgentResults == {"Example headline captured"}
LiveUrls == {"https://live.browser-use.com/test"}
ExecutorKinds == {"run_agent", "_fake_run_agent"}

\* ------------------------------------------------------------- events
StatusEvent(s) == [type |-> "status", val |-> s]
LiveUrlEvent(u) == [type |-> "live_url", val |-> u]
ResultEvent(t) == [type |-> "result", val |-> t]
ErrorEvent == [type |-> "error", val |-> "Agent run failed"]
CompleteEvent == [type |-> "complete", val |-> ""]
LogEvent == [type |-> "log", val |-> "message"]

\* (mutant) the duration is never computed
elapsed_not_computed(started, done, cached) == cached

\* `if started_at and duration_seconds is None: duration_seconds =
\* completed_at - started_at`
elapsed(started, done, cached) ==
    IF Truthy(started) /\ cached = None
    THEN Some(Val(done) - Val(started)) ELSE cached

\* ------------------------------------------------------------- race state
ParticipantState ==
    [status |-> "pending", started_at |-> None, completed_at |-> None,
     duration_seconds |-> None, result |-> None, live_url |-> None]

RaceState(task_type) ==
    [task_type |-> task_type, status |-> "ready", agent_run_id |-> None,
     agent |-> ParticipantState, human |-> ParticipantState,
     human_submission |-> None, verdict |-> None, finalizing |-> FALSE]

agent_ready(race) == race.agent.result # None \/ race.agent.status = "error"
human_ready(race) ==
    IF race.task_type = "text_entry"
    THEN race.human_submission # None
    ELSE race.human.status = "completed"

\* (mutant) the guard forgets the finalizing flag
should_finalize_no_flag_check(race) ==
    /\ ~(race.verdict # None)
    /\ agent_ready(race) /\ human_ready(race)

\* (mutant) the guard forgets the stored verdict
should_finalize_no_verdict_check(race) ==
    /\ ~race.finalizing
    /\ agent_ready(race) /\ human_ready(race)

\* (mutant) only a recorded result makes the agent ready
should_finalize_result_only(race) ==
    /\ ~(race.verdict # None \/ race.finalizing)
    /\ race.agent.result # None /\ human_ready(race)

\* _maybe_finalize gets past its two early returns
should_finalize(race) ==
    /\ ~(race.verdict # None \/ race.finalizing)
    /\ agent_ready(race) /\ human_ready(race)

\* (mutant) the flag is set and the status is left as it was
maybe_finalize_keeps_status(race) ==
    IF should_finalize(race)
    THEN [race EXCEPT !.finalizing = TRUE]
    ELSE race

\* _maybe_finalize: the race it leaves.  It creates the judgement task
\* exactly when should_finalize holds of the race it is given.
maybe_finalize(race) ==
    IF should_finalize(race)
    THEN [race EXCEPT !.finalizing = TRUE, !.status = "judging"]
    ELSE race

\* (mutant) a complete event moves every race that is not judging or
\* completed to awaiting_human, whatever the human's status
apply_event_human_unchecked(race, event, now) ==
    CASE event.type = "status" ->
           [race EXCEPT !.agent.status = event.val,
                        !.agent.started_at =
                            IF event.val = "running" /\ @ = None THEN Some(now) ELSE @]
      [] event.type = "live_url" ->
           [race EXCEPT !.agent.live_url = Some(event.val)]
      [] event.type = "result" ->
           LET done == OrElse(race.agent.completed_at, now)
           IN [race EXCEPT !.agent.result = Some(event.val),
                           !.agent.completed_at = done,
                           !.agent.duration_seconds =
                               IF Truthy(race.agent.started_at)
                               THEN Some(Val(done) - Val(race.agent.started_at))
                               ELSE @]
      [] event.type = "error" ->
           [race EXCEPT !.agent.status = "error"]
      [] event.type = "complete" ->
           LET done == OrElse(race.agent.completed_at, now)
           IN [race EXCEPT !.agent.status = "completed",
                           !.agent.completed_at = done,
                           !.agent.duration_seconds =
                               elapsed(race.agent.started_at, done, @),
                           !.status =
                               IF @ # "judging" /\ @ # "completed"
                               THEN "awaiting_human" ELSE @]
      [] OTHER -> race

\* (mutant) the live_url branch keeps a URL that is already stored
apply_event_keeps_first_url(race, event, now) ==
    CASE event.type = "status" ->
           [race EXCEPT !.agent.status = event.val,
                        !.agent.started_at =
                            IF event.val = "running" /\ @ = None THEN Some(now) ELSE @]
      [] event.type = "live_url" ->
           [race EXCEPT !.agent.live_url =
                            IF @ = None THEN Some(event.val) ELSE @]
      [] event.type = "result" ->
           LET done == OrElse(race.agent.completed_at, now)
           IN [race EXCEPT !.agent.result = Some(event.val),
                           !.agent.completed_at = done,
                           !.agent.duration_seconds =
                               IF Truthy(race.agent.started_at)
                               THEN Some(Val(done) - Val(race.agent.started_at))
                               ELSE @]
      [] event.type = "error" ->
           [race EXCEPT !.agent.status = "error"]
      [] event.type = "complete" ->
           LET done == OrElse(race.agent.completed_at, now)
           IN [race EXCEPT !.agent.status = "completed",
                           !.agent.completed_at = done,
                           !.agent.duration_seconds =
                               elapsed(race.agent.started_at, done, @),
                           !.status =
                               IF @ # "judging" /\ @ # "completed"
                               THEN (IF race.human.status # "completed"
                                     THEN "awaiting_human" ELSE @)
                               ELSE @]
      [] OTHER -> race

\* The branches of handle_run_event on the event type, before _maybe_finalize.
apply_event(race, event, now) ==
    CASE event.type = "status" ->
           [race EXCEPT !.agent.status = event.val,
                        !.agent.started_at =
                            IF event.val = "running" /\ @ = None THEN Some(now) ELSE @]
      [] event.type = "live_url" ->
           [race EXCEPT !.agent.live_url = Some(event.val)]
      [] event.type = "result" ->
           LET done == OrElse(race.agent.completed_at, now)
           IN [race EXCEPT !.agent.result = Some(event.val),
                           !.agent.completed_at = done,
                           !.agent.duration_seconds =
                               IF Truthy(race.agent.started_at)
                               THEN Some(Val(done) - Val(race.agent.started_at))
                               ELSE @]
      [] event.type = "error" ->
           [race EXCEPT !.agent.status = "error"]
      [] event.type = "complete" ->
           LET done == OrElse(race.agent.completed_at, now)
           IN [race EXCEPT !.agent.status = "completed",
                           !.agent.completed_at = done,
                           !.agent.duration_seconds =
                               elapsed(race.agent.started_at, done, @),
                           !.status =
                               IF @ # "judging" /\ @ # "completed"
                               THEN (IF race.human.status # "completed"
                                     THEN "awaiting_human" ELSE @)
                               ELSE @]
      [] OTHER -> race

\* register_agent_run on a race without a run (lines 130-135).
register_race(race, run_id, now) ==
    [race EXCEPT !.agent_run_id = Some(run_id),
                 !.status = "running",
                 !.agent.status = "starting",
                 !.agent.started_at = OrElse(@, now)]

\* (mutant) the text is stored as the human's result only
human_submission_result_only(race, submission, t1, t2) ==
    LET started == IF race.human.status = "pending"
                   THEN OrElse(race.human.started_at, t1)
                   ELSE race.human.started_at
        done == OrElse(race.human.completed_at, t2)
        text == OrEmpty(submission)
    IN [race EXCEPT !.human.status = "completed",
                    !.human.started_at = started,
                    !.human.completed_at = done,
                    !.human.duration_seconds = elapsed(started, done, @),
                    !.human.result =
                        IF race.task_type = "text_entry" THEN text ELSE @]

\* record_human_submission before _maybe_finalize; t1 and t2 are its two
\* clock readings.
human_submission(race, submission, t1, t2) ==
    LET started == IF race.human.status = "pending"
                   THEN OrElse(race.human.started_at, t1)
                   ELSE race.human.started_at
        done == OrElse(race.human.completed_at, t2)
        text == OrEmpty(submission)
    IN [race EXCEPT !.human.status = "completed",
                    !.human.started_at = started,
                    !.human.completed_at = done,
                    !.human.duration_seconds = elapsed(started, done, @),
                    !.human_submission = text,
                    !.human.result =
                        IF race.task_type = "text_entry" THEN text ELSE @]

\* (mutant) the race goes back to running whatever its status
human_started_always_running(race, now) ==
    IF race.human.status = "completed" THEN race
    ELSE IF race.human.status = "pending"
         THEN [race EXCEPT !.human.status = "running",
                           !.human.started_at = OrElse(@, now),
                           !.status = "running"]
         ELSE race

\* (mutant) a human that is running is started again
human_started_restarts(race, now) ==
    IF race.human.status = "completed" THEN race
    ELSE [race EXCEPT !.human.status = "running",
                      !.human.started_at = Some(now),
                      !.status = IF @ = "ready" THEN "running" ELSE @]

\* mark_human_started.
human_started(race, now) ==
    IF race.human.status = "completed" THEN race
    ELSE IF race.human.status = "pending"
         THEN [race EXCEPT !.human.status = "running",
                           !.human.started_at = OrElse(@, now),
                           !.status = IF @ = "ready" THEN "running" ELSE @]
         ELSE race

\* ------------------------------------------------------------- judge
\* What the judge model may answer: no text at all, JSON lacking a required
\* key, or JSON with the four keys.  A score is numeric (float() accepts it)
\* or not.
Score(n) == [numeric |-> TRUE, value |-> n]
BadScore == [numeric |-> FALSE, value |-> 0]
Reply(w, h) == [kind |-> "json", winner |-> w, agent_score |-> Score(6), human_score |-> h]
JudgeReplies ==
    {[kind |-> "empty"], Reply("agent", Score(8)), Reply("HUMAN", Score(8)),
     Reply("nobody", Score(8)), Reply("agent", BadScore)}

\* str(winner).lower() on the winners above
Lower(w) == IF w = "HUMAN" THEN "human" ELSE w

\* (mutant) the winner is lowercased and stored as it is
judge_race_keeps_winner(reply) ==
    IF reply.kind = "empty"
    THEN [raised |-> TRUE, exc |-> "Judge returned no content"]
    ELSE IF reply.kind = "missing_keys"
    THEN [raised |-> TRUE, exc |-> "Judge response missing keys"]
    ELSE IF ~reply.agent_score.numeric
    THEN [raised |-> TRUE, exc |-> "Judge response agent_score is not numeric"]
    ELSE IF ~reply.human_score.numeric
    THEN [raised |-> TRUE, exc |-> "Judge response human_score is not numeric"]
    ELSE [raised |-> FALSE,
          verdict |-> [winner |-> Lower(reply.winner), reasoning |-> <<"judge">>,
                       agent_score |-> reply.agent_score.value,
                       human_score |-> reply.human_score.value]]

\* judge_race after the model answered: a verdict, or the RuntimeError raised.
judge_race(reply) ==
    IF reply.kind = "empty"
    THEN [raised |-> TRUE, exc |-> "Judge returned no content"]
    ELSE IF reply.kind = "missing_keys"
    THEN [raised |-> TRUE, exc |-> "Judge response missing keys"]
    ELSE LET winner == IF Lower(reply.winner) \notin {"agent", "human", "tie"}
                       THEN "tie" ELSE Lower(reply.winner)
         IN IF ~reply.agent_score.numeric
            THEN [raised |-> TRUE, exc |-> "Judge response agent_score is not numeric"]
            ELSE IF ~reply.human_score.numeric
            THEN [raised |-> TRUE, exc |-> "Judge response human_score is not numeric"]
            ELSE [raised |-> FALSE,
                  verdict |-> [winner |-> winner, reasoning |-> <<"judge">>,
                               agent_score |-> reply.agent_score.value,
                               human_score |-> reply.human_score.value]]

\* the except branch of _run_judgement
tie_verdict(exc) ==
    [winner |-> "tie", reasoning |-> <<"Judging failed: ", exc>>,
     agent_score |-> 0, human_score |-> 0]

\* (mutant) the except branch stores the verdict and forgets the status
judged_failure_keeps_status(race, outcome) ==
    [race EXCEPT !.verdict = IF outcome.raised THEN Some(tie_verdict(outcome.exc))
                             ELSE Some(outcome.verdict),
                 !.status = IF outcome.raised THEN @ ELSE "completed",
                 !.finalizing = FALSE]

\* (mutant) finalizing is cleared only when the judge returned a verdict
judged_flag_kept_on_failure(race, outcome) ==
    [race EXCEPT !.verdict = IF outcome.raised THEN Some(tie_verdict(outcome.exc))
                             ELSE Some(outcome.verdict),
                 !.status = "completed",
                 !.finalizing = IF outcome.raised THEN @ ELSE FALSE]

\* _run_judgement from the return (or raise) of llm.judge_race to its end
judged(race, outcome) ==
    [race EXCEPT !.verdict = IF outcome.raised THEN Some(tie_verdict(outcome.exc))
                             ELSE Some(outcome.verdict),
                 !.status = "completed",
                 !.finalizing = FALSE]

\* ------------------------------------------------------------- state
VARIABLES
    now,          \* the last reading of time.time()
    races,        \* the RaceState objects created so far, by race id
    RACE_STATES,  \* the ids that are keys of the race registry
    RUN_TO_RACE,  \* the run-to-race index
    race_lock,    \* _race_lock is held by a create_race awaiting its task
    runs,         \* the RunState objects created so far, by run id
    run_states,   \* the ids that are keys of the run registry
    listeners,    \* the listener queues handed out by subscribe: inbox is all
                  \* that was ever put in the queue, read how much of it
                  \* event_generator took, replayed how much subscribe put
    tasks,        \* the _run_judgement tasks created so far, in order
    cur,          \* the dispatch loop that holds the event loop, if any
    executor,     \* what server.run_agent is bound to
    response      \* the outcome of the last API call

vars == <<now, races, RACE_STATES, RUN_TO_RACE, race_lock, runs, run_states,
          listeners, tasks, cur, executor, response>>

\* time.time(): readings never decrease
Clock == now..MaxTime

RunState(race_id) ==
    [race_id |-> race_id, queue |-> <<>>, buffer |-> <<>>,
     listeners |-> {}, dispatch_done |-> FALSE, dispatch |-> "waiting",
     agent |-> "created", live_url_sent |-> FALSE, logs |-> 0]

\* exc is what llm.judge_race raised in the task, if it did
JudgeTask(race_id) == [race |-> race_id, pc |-> "spawned", args |-> None, exc |-> None]

\* asyncio.create_task(_run_judgement()) when _maybe_finalize, given `race`,
\* gets that far
Spawn(race_id, race) ==
    IF should_finalize(race) THEN Append(tasks, JudgeTask(race_id)) ELSE tasks

Init ==
    /\ now = 1
    /\ races = [id \in {} |-> None]
    /\ RACE_STATES = {}
    /\ RUN_TO_RACE = {}
    /\ race_lock = FALSE
    /\ runs = [id \in {} |-> None]
    /\ run_states = {}
    /\ listeners = [id \in {} |-> None]
    /\ tasks = <<>>
    /\ cur = None
    /\ executor \in ExecutorKinds
    /\ response = "ok"

Idle == cur = None

\* uuid4().hex: an identifier that was never handed out
uuid4(ids, used) == CHOOSE id \in ids : id \notin used

\* ------------------------------------------------------------- race registry
\* RUN_TO_RACE is a set of <<run id, race id>> pairs with at most one pair a run
run_to_race_get(run_id) == {p[2] : p \in {q \in RUN_TO_RACE : q[1] = run_id}}
run_to_race_set(index, run_id, race_id) ==
    {q \in index : q[1] # run_id} \cup {<<run_id, race_id>>}
run_to_race_pop(index, run_id) == {q \in index : q[1] # run_id}

\* create_race takes _race_lock and awaits llm.generate_race_task
CreateBegin ==
    /\ Idle
    /\ ~race_lock
    /\ DOMAIN races # RaceIds
    /\ race_lock' = TRUE
    /\ UNCHANGED <<now, races, RACE_STATES, RUN_TO_RACE, runs, run_states,
                   listeners, tasks, cur, executor, response>>

\* the task arrived: the race is built and inserted, the lock released
CreateEnd ==
    /\ Idle
    /\ race_lock
    /\ \E task_type \in TaskTypes :
         LET race_id == uuid4(RaceIds, DOMAIN races)
         IN /\ races' = races @@ (race_id :> RaceState(task_type))
            /\ RACE_STATES' = RACE_STATES \cup {race_id}
    /\ race_lock' = FALSE
    /\ response' = "ok"
    /\ UNCHANGED <<now, RUN_TO_RACE, runs, run_states, listeners, tasks, cur, executor>>

\* (mutant) the failure leaves _race_lock held
CreateFail_keeps_lock ==
    /\ Idle
    /\ race_lock
    /\ race_lock' = TRUE
    /\ response' = "task_generation_failed"
    /\ UNCHANGED <<now, races, RACE_STATES, RUN_TO_RACE, runs, run_states,
                   listeners, tasks, cur, executor>>

\* generate_race_task raised: `async with` releases the lock, nothing is stored
CreateFail ==
    /\ Idle
    /\ race_lock
    /\ race_lock' = FALSE
    /\ response' = "task_generation_failed"
    /\ UNCHANGED <<now, races, RACE_STATES, RUN_TO_RACE, runs, run_states,
                   listeners, tasks, cur, executor>>

\* (mutant) clear_race leaves the run-to-race index as it is
ClearRace_keeps_index(race_id) ==
    /\ Idle
    /\ RACE_STATES' = RACE_STATES \ {race_id}
    /\ UNCHANGED <<now, races, RUN_TO_RACE, race_lock, runs, run_states, listeners,
                   tasks, cur, executor, response>>

\* clear_race
ClearRace(race_id) ==
    /\ Idle
    /\ RACE_STATES' = RACE_STATES \ {race_id}
    /\ RUN_TO_RACE' = {q \in RUN_TO_RACE : q[2] # race_id}
    /\ UNCHANGED <<now, races, race_lock, runs, run_states, listeners, tasks,
                   cur, executor, response>>

\* ------------------------------------------------------------- launching a run
\* (mutant) the run of a refused launch stays in the run registry
launch_run_keeps_failed_run(race_id, t) ==
    LET run_id == uuid4(RunIds, DOMAIN runs)
        created == [runs |-> runs @@ (run_id :> RunState(Some(race_id))),
                    run_states |-> run_states \cup {run_id}]
        race == races[race_id]
    IN IF race.agent_run_id # None
       THEN [runs |-> created.runs, run_states |-> created.run_states,
             races |-> races, RUN_TO_RACE |-> RUN_TO_RACE, response |-> "conflict"]
       ELSE [runs |-> created.runs, run_states |-> created.run_states,
             races |-> [races EXCEPT ![race_id] = register_race(race, run_id, t)],
             RUN_TO_RACE |-> run_to_race_set(RUN_TO_RACE, run_id, race_id),
             response |-> "ok"]

\* _launch_run for a race that is in the registry.  The run gets the next
\* fresh id; the result is the state of both registries and of the race
\* objects when _launch_run returns or raises.
launch_run(race_id, t) ==
    LET run_id == uuid4(RunIds, DOMAIN runs)
        created == [runs |-> runs @@ (run_id :> RunState(Some(race_id))),
                    run_states |-> run_states \cup {run_id}]
        race == races[race_id]
    IN IF race.agent_run_id # None
       THEN \* register_agent_run raised: cancel_dispatch, pop, re-raise
            [runs |-> runs, run_states |-> created.run_states \ {run_id},
             races |-> races, RUN_TO_RACE |-> RUN_TO_RACE, response |-> "conflict"]
       ELSE [runs |-> created.runs, run_states |-> created.run_states,
             races |-> [races EXCEPT ![race_id] = register_race(race, run_id, t)],
             RUN_TO_RACE |-> run_to_race_set(RUN_TO_RACE, run_id, race_id),
             response |-> "ok"]

\* POST /race/{race_id}/agent/start
StartRaceAgent(race_id) ==
    /\ Idle
    /\ IF race_id \notin RACE_STATES
       THEN /\ response' = "not_found"
            /\ UNCHANGED <<now, races, RUN_TO_RACE, runs, run_states>>
       ELSE \E t \in Clock :
              LET out == launch_run(race_id, t)
              IN /\ DOMAIN runs # RunIds
                 /\ runs' = out.runs
                 /\ run_states' = out.run_states
                 /\ races' = out.races
                 /\ RUN_TO_RACE' = out.RUN_TO_RACE
                 /\ response' = out.response
                 /\ now' = IF out.response = "ok" THEN t ELSE now
    /\ UNCHANGED <<RACE_STATES, race_lock, listeners, tasks, cur, executor>>

\* POST /run: a run bound to no race
StartRun ==
    /\ Idle
    /\ DOMAIN runs # RunIds
    /\ LET run_id == uuid4(RunIds, DOMAIN runs)
       IN /\ runs' = runs @@ (run_id :> RunState(None))
          /\ run_states' = run_states \cup {run_id}
    /\ response' = "ok"
    /\ UNCHANGED <<now, races, RACE_STATES, RUN_TO_RACE, race_lock, listeners,
                   tasks, cur, executor>>

\* ------------------------------------------------------------- agent executor
\* run_agent up to its first suspension, `await agent.run()`: it puts
\* status:starting, builds the session and the agent (which may raise, outside
\* the try), and puts status:running.
run_agent_setup(queue, fails) ==
    IF fails THEN Append(queue, StatusEvent("starting"))
    ELSE queue \o <<StatusEvent("starting"), StatusEvent("running")>>

\* (mutant) the result event is not put
run_agent_return_without_result(queue, result) ==
    queue \o <<StatusEvent("completed"), CompleteEvent>>

\* run_agent from the return of agent.run() to its end
run_agent_return(queue, result) ==
    queue \o <<StatusEvent("completed"), ResultEvent(result), CompleteEvent>>

\* run_agent when agent.run() raises: logging.exception hands a record to
\* QueueLogHandler, whose put is a callback that runs after this step
run_agent_raise(queue) == queue \o <<ErrorEvent, CompleteEvent, LogEvent>>

\* _fake_run_agent of the test
fake_run_agent(queue, result, url) ==
    queue \o <<StatusEvent("running"), LiveUrlEvent(url), ResultEvent(result),
               CompleteEvent>>

\* the runner task starts
AgentSetup(u) ==
    /\ Idle
    /\ u \in DOMAIN runs
    /\ runs[u].agent = "created"
    /\ \/ /\ executor = "_fake_run_agent"
          /\ \E result \in AgentResults, url \in LiveUrls :
               runs' = [runs EXCEPT ![u].queue = fake_run_agent(@, result, url),
                                    ![u].agent = "returned"]
       \/ /\ executor = "run_agent"
          /\ \E fails \in BOOLEAN :
               runs' = [runs EXCEPT ![u].queue = run_agent_setup(@, fails),
                                    ![u].agent = IF fails THEN "crashed" ELSE "running"]
    /\ UNCHANGED <<now, races, RACE_STATES, RUN_TO_RACE, race_lock, run_states,
                   listeners, tasks, cur, executor, response>>

\* QueueLogHandler.emit while the agent runs: a log event, and the live URL
\* the first time a record holds one
AgentLog(u) ==
    /\ Idle
    /\ u \in DOMAIN runs
    /\ runs[u].agent = "running"
    /\ runs[u].logs < MaxLogs
    /\ \/ runs' = [runs EXCEPT ![u].queue = Append(@, LogEvent),
                               ![u].logs = @ + 1]
       \/ /\ ~runs[u].live_url_sent
          /\ \E url \in LiveUrls :
               runs' = [runs EXCEPT ![u].queue = @ \o <<LogEvent, LiveUrlEvent(url)>>,
                                    ![u].logs = @ + 1,
                                    ![u].live_url_sent = TRUE]
    /\ UNCHANGED <<now, races, RACE_STATES, RUN_TO_RACE, race_lock, run_states,
                   listeners, tasks, cur, executor, response>>

\* agent.run() returned
AgentReturn(u) ==
    /\ Idle
    /\ u \in DOMAIN runs
    /\ runs[u].agent = "running"
    /\ \E result \in AgentResults :
         runs' = [runs EXCEPT ![u].queue = run_agent_return(@, result),
                              ![u].agent = "returned"]
    /\ UNCHANGED <<now, races, RACE_STATES, RUN_TO_RACE, race_lock, run_states,
                   listeners, tasks, cur, executor, response>>

\* agent.run() raised
AgentRaise(u) ==
    /\ Idle
    /\ u \in DOMAIN runs
    /\ runs[u].agent = "running"
    /\ runs' = [runs EXCEPT ![u].queue = run_agent_raise(@),
                            ![u].agent = "raised"]
    /\ UNCHANGED <<now, races, RACE_STATES, RUN_TO_RACE, race_lock, run_states,
                   listeners, tasks, cur, executor, response>>

\* (mutant) the runner pops the run without waiting for the dispatch loop
RunnerFinish_without_waiting(u) ==
    /\ Idle
    /\ u \in DOMAIN runs
    /\ runs[u].agent \in {"returned", "raised", "crashed"}
    /\ runs' = [runs EXCEPT ![u].agent = "gone"]
    /\ run_states' = run_states \ {u}
    /\ UNCHANGED <<now, races, RACE_STATES, RUN_TO_RACE, race_lock, listeners,
                   tasks, cur, executor, response>>

\* runner's finally, once run_agent has returned or raised: wait_for_dispatch
\* returns when _dispatch_done is set, and the run leaves the registry; when
\* the dispatch loop died of an exception, awaiting its task raises it again
\* and the pop is skipped
RunnerFinish(u) ==
    /\ Idle
    /\ u \in DOMAIN runs
    /\ runs[u].agent \in {"returned", "raised", "crashed"}
    /\ runs[u].dispatch_done
    /\ runs' = [runs EXCEPT ![u].agent = "gone"]
    /\ run_states' = IF runs[u].dispatch = "failed" THEN run_states
                     ELSE run_states \ {u}
    /\ UNCHANGED <<now, races, RACE_STATES, RUN_TO_RACE, race_lock, listeners,
                   tasks, cur, executor, response>>

\* ------------------------------------------------------------- dispatch loop
\* (mutant) the race is looked up by its agent_run_id, not in the index
handle_run_event_by_agent_run_id(run_id, event, t) ==
    LET found == {r \in DOMAIN races : races[r].agent_run_id = Some(run_id)}
    IN IF found = {}
       THEN [raised |-> FALSE, races |-> races, RUN_TO_RACE |-> RUN_TO_RACE,
             spawned |-> None]
       ELSE LET race_id == CHOOSE r \in found : TRUE
                applied == apply_event(races[race_id], event, t)
                after == maybe_finalize(applied)
            IN [raised |-> FALSE,
                races |-> [races EXCEPT ![race_id] = after],
                RUN_TO_RACE |-> IF event.type = "complete"
                                THEN run_to_race_pop(RUN_TO_RACE, run_id)
                                ELSE RUN_TO_RACE,
                spawned |-> IF should_finalize(applied)
                            THEN Some(race_id) ELSE None]

\* handle_run_event: the race objects, the index, and the race whose
\* judgement it spawned (if any).  An unknown run id drops the event; a run
\* indexed to a race that is not in the registry makes get_race raise.
\* (mutant) the event of a bound run is passed on without being applied
handle_run_event_not_applied(run_id, event, t) ==
    [raised |-> FALSE, races |-> races, RUN_TO_RACE |-> RUN_TO_RACE,
     spawned |-> None]

handle_run_event(run_id, event, t) ==
    LET found == run_to_race_get(run_id)
    IN IF found = {}
       THEN [raised |-> FALSE, races |-> races, RUN_TO_RACE |-> RUN_TO_RACE,
             spawned |-> None]
       ELSE LET race_id == CHOOSE r \in found : TRUE
            IN IF race_id \notin RACE_STATES
               THEN [raised |-> TRUE, races |-> races, RUN_TO_RACE |-> RUN_TO_RACE,
                     spawned |-> None]
               ELSE LET applied == apply_event(races[race_id], event, t)
                        after == maybe_finalize(applied)
                    IN [raised |-> FALSE,
                        races |-> [races EXCEPT ![race_id] = after],
                        RUN_TO_RACE |-> IF event.type = "complete"
                                        THEN run_to_race_pop(RUN_TO_RACE, run_id)
                                        ELSE RUN_TO_RACE,
                        spawned |-> IF should_finalize(applied)
                                    THEN Some(race_id) ELSE None]

\* (mutant) the loop goes on after a complete event
dispatch_never_stops(event) == FALSE

\* `if event.get("type") == "complete": break`
dispatch_stops(event) == event.type = "complete"

\* listener.put_nowait(event) for every listener of the run
fan_out(subscribed, event) ==
    [l \in DOMAIN listeners |->
        IF l \in subscribed
        THEN [listeners[l] EXCEPT !.inbox = Append(@, event)]
        ELSE listeners[l]]

\* one iteration of _dispatch_loop
Dispatch(u) ==
    /\ cur \in {None, Some(u)}
    /\ u \in DOMAIN runs
    /\ runs[u].dispatch = "waiting"
    /\ runs[u].queue # <<>>
    /\ \E t \in Clock :
         LET event == Head(runs[u].queue)
             routed == runs[u].race_id # None
             out == IF routed THEN handle_run_event(u, event, t)
                    ELSE [raised |-> FALSE, races |-> races,
                          RUN_TO_RACE |-> RUN_TO_RACE, spawned |-> None]
             last == dispatch_stops(event)
         IN /\ races' = out.races
            /\ RUN_TO_RACE' = out.RUN_TO_RACE
            /\ tasks' = IF out.spawned # None
                        THEN Append(tasks, JudgeTask(Val(out.spawned))) ELSE tasks
            /\ now' = IF races' # races THEN t ELSE now
            /\ IF out.raised
               THEN /\ runs' = [runs EXCEPT ![u].queue = Tail(@),
                                            ![u].dispatch = "failed",
                                            ![u].dispatch_done = TRUE]
                    /\ listeners' = listeners
                    /\ cur' = None
               ELSE /\ runs' = [runs EXCEPT ![u].queue = Tail(@),
                                            ![u].buffer = Append(@, event),
                                            ![u].dispatch =
                                                IF last THEN "finished" ELSE @,
                                            ![u].dispatch_done = last]
                    /\ listeners' = fan_out(runs[u].listeners, event)
                    /\ cur' = IF last \/ Tail(runs[u].queue) = <<>>
                              THEN None ELSE Some(u)
    /\ UNCHANGED <<RACE_STATES, race_lock, run_states, executor, response>>

\* ------------------------------------------------------------- human side
\* POST /race/{race_id}/human/start
StartHumanAttempt(race_id) ==
    /\ Idle
    /\ IF race_id \notin RACE_STATES
       THEN /\ response' = "not_found"
            /\ UNCHANGED <<now, races>>
       ELSE \E t \in Clock :
              /\ races' = [races EXCEPT ![race_id] = human_started(@, t)]
              /\ now' = IF races' # races THEN t ELSE now
              /\ response' = "ok"
    /\ UNCHANGED <<RACE_STATES, RUN_TO_RACE, race_lock, runs, run_states,
                   listeners, tasks, cur, executor>>


\* POST /race/{race_id}/human/submit
SubmitHumanAttempt(race_id, submission) ==
    /\ Idle
    /\ IF race_id \notin RACE_STATES
       THEN /\ response' = "not_found"
            /\ UNCHANGED <<now, races, tasks>>
       ELSE \E t1 \in Clock : \E t2 \in t1..MaxTime :
              LET recorded == human_submission(races[race_id], submission, t1, t2)
              IN /\ races' = [races EXCEPT ![race_id] = maybe_finalize(recorded)]
                 /\ tasks' = Spawn(race_id, recorded)
                 /\ now' = IF IsNone(races[race_id].human.completed_at) THEN t2 ELSE now
                 /\ response' = "ok"
    /\ UNCHANGED <<RACE_STATES, RUN_TO_RACE, race_lock, runs, run_states,
                   listeners, cur, executor>>

\* ------------------------------------------------------------- judgement task
\* what _run_judgement passes to llm.judge_race, read from a race
JudgeInputs(race) ==
    [agent_result |-> race.agent.result,
     human_submission |-> race.human_submission,
     agent_duration |-> race.agent.duration_seconds,
     human_duration |-> race.human.duration_seconds]

\* _run_judgement starts: it reads the race and calls llm.judge_race, which
\* raises at once when no API key is set and otherwise awaits the model
JudgeStart(i) ==
    /\ Idle
    /\ i \in DOMAIN tasks
    /\ tasks[i].pc = "spawned"
    /\ LET race == races[tasks[i].race]
           args == JudgeInputs(race)
       IN \/ /\ tasks' = [tasks EXCEPT ![i].pc = "awaiting", ![i].args = Some(args)]
             /\ races' = races
          \/ LET outcome == [raised |-> TRUE,
                              exc |-> "Missing OPENAI_API_KEY environment variable"]
             IN /\ tasks' = [tasks EXCEPT ![i].pc = "done", ![i].args = Some(args),
                                          ![i].exc = Some(outcome.exc)]
                /\ races' = [races EXCEPT ![tasks[i].race] = judged(@, outcome)]
    /\ UNCHANGED <<now, RACE_STATES, RUN_TO_RACE, race_lock, runs, run_states,
                   listeners, cur, executor, response>>

\* the model call returned or raised: the rest of _run_judgement
JudgeReturn(i) ==
    /\ Idle
    /\ i \in DOMAIN tasks
    /\ tasks[i].pc = "awaiting"
    /\ \E outcome \in {judge_race(reply) : reply \in JudgeReplies}
                      \cup {[raised |-> TRUE, exc |-> "API request failed"]} :
         /\ races' = [races EXCEPT ![tasks[i].race] = judged(@, outcome)]
         /\ tasks' = [tasks EXCEPT ![i].pc = "done",
                                   ![i].exc = IF outcome.raised THEN Some(outcome.exc)
                                              ELSE None]
    /\ UNCHANGED <<now, RACE_STATES, RUN_TO_RACE, race_lock, runs, run_states,
                   listeners, cur, executor, response>>

\* ------------------------------------------------------------- subscribers
\* (mutant) the new listener is not given the replay buffer
subscribe_without_replay(state) ==
    [inbox |-> <<>>, registered |-> ~state.dispatch_done]

\* RunState.subscribe: the new listener queue and whether it is registered
subscribe(state) ==
    [inbox |-> state.buffer, registered |-> ~state.dispatch_done]

\* GET /run/{run_id}/events
StreamEvents(u) ==
    /\ Idle
    /\ u \in RunIds
    /\ IF u \notin run_states
       THEN /\ response' = "not_found"
            /\ UNCHANGED <<runs, listeners>>
       ELSE /\ DOMAIN listeners # ListenerIds
            /\ LET sub == subscribe(runs[u])
                   l == uuid4(ListenerIds, DOMAIN listeners)
               IN /\ listeners' = listeners @@
                                     (l :> [run |-> u, inbox |-> sub.inbox, read |-> 0,
                                            pc |-> "get",
                                            replayed |-> Len(sub.inbox),
                                            late |-> ~sub.registered])
                  /\ runs' = [runs EXCEPT ![u].listeners =
                                 IF sub.registered THEN @ \cup {l} ELSE @]
            /\ response' = "ok"
    /\ UNCHANGED <<now, races, RACE_STATES, RUN_TO_RACE, race_lock, run_states,
                   tasks, cur, executor>>

\* event_generator takes the next event of its queue and yields it; after a
\* `complete` it leaves the loop and unsubscribes
EventGenerator(l) ==
    /\ Idle
    /\ l \in DOMAIN listeners
    /\ listeners[l].pc = "get"
    /\ listeners[l].read < Len(listeners[l].inbox)
    /\ LET event == listeners[l].inbox[listeners[l].read + 1]
       IN IF event.type = "complete"
          THEN /\ listeners' = [listeners EXCEPT ![l].read = @ + 1, ![l].pc = "closed"]
               /\ runs' = [runs EXCEPT ![listeners[l].run].listeners = @ \ {l}]
          ELSE /\ listeners' = [listeners EXCEPT ![l].read = @ + 1]
               /\ runs' = runs
    /\ UNCHANGED <<now, races, RACE_STATES, RUN_TO_RACE, race_lock, run_states,
                   tasks, cur, executor, response>>

\* (mutant) a disconnect empties the listener set of the run
Disconnect_removes_all(l) ==
    /\ Idle
    /\ l \in DOMAIN listeners
    /\ listeners[l].pc = "get"
    /\ listeners' = [listeners EXCEPT ![l].pc = "closed"]
    /\ runs' = [runs EXCEPT ![listeners[l].run].listeners = {}]
    /\ UNCHANGED <<now, races, RACE_STATES, RUN_TO_RACE, race_lock, run_states,
                   tasks, cur, executor, response>>

\* the consumer disconnects: CancelledError in event_generator, then unsubscribe
Disconnect(l) ==
    /\ Idle
    /\ l \in DOMAIN listeners
    /\ listeners[l].pc = "get"
    /\ listeners' = [listeners EXCEPT ![l].pc = "closed"]
    /\ runs' = [runs EXCEPT ![listeners[l].run].listeners = @ \ {l}]
    /\ UNCHANGED <<now, races, RACE_STATES, RUN_TO_RACE, race_lock, run_states,
                   tasks, cur, executor, response>>

\* ------------------------------------------------------------- specification
\* The race orchestration core: races, their agent runs and the judge.
Next ==
    \/ CreateBegin
    \/ CreateEnd
    \/ CreateFail
    \/ \E r \in RaceIds : ClearRace(r)
    \/ \E r \in RaceIds : StartRaceAgent(r)
    \/ \E u \in RunIds : AgentSetup(u)
    \/ \E u \in RunIds : AgentLog(u)
    \/ \E u \in RunIds : AgentReturn(u)
    \/ \E u \in RunIds : AgentRaise(u)
    \/ \E u \in RunIds : RunnerFinish(u)
    \/ \E u \in RunIds : Dispatch(u)
    \/ \E r \in RaceIds : StartHumanAttempt(r)
    \/ \E r \in RaceIds, s \in Submissions : SubmitHumanAttempt(r, s)
    \/ \E i \in DOMAIN tasks : JudgeStart(i)
    \/ \E i \in DOMAIN tasks : JudgeReturn(i)

Spec == Init /\ [][Next]_vars

\* The event stream of a run started by POST /run, and its subscribers.
\* RunState objects share nothing, so one run is followed.
StreamNext ==
    \/ (DOMAIN runs = {} /\ StartRun)
    \/ \E u \in RunIds : AgentSetup(u)
    \/ \E u \in RunIds : AgentLog(u)
    \/ \E u \in RunIds : AgentReturn(u)
    \/ \E u \in RunIds : AgentRaise(u)
    \/ \E u \in RunIds : RunnerFinish(u)
    \/ \E u \in RunIds : Dispatch(u)
    \/ \E u \in RunIds : StreamEvents(u)
    \/ \E l \in ListenerIds : EventGenerator(l)
    \/ \E l \in ListenerIds : Disconnect(l)

StreamSpec == Init /\ [][StreamNext]_vars

\* The event stream of the agent run of a race, with one subscriber that
\* reads, lags or disconnects, while the race is created, cleared and fed the
\* run's events.
RaceStreamNext ==
    \/ CreateBegin
    \/ CreateEnd
    \/ \E r \in RaceIds : ClearRace(r)
    \/ (DOMAIN runs = {} /\ \E r \in RaceIds : StartRaceAgent(r))
    \/ \E u \in RunIds : AgentSetup(u)
    \/ \E u \in RunIds : AgentLog(u)
    \/ \E u \in RunIds : AgentReturn(u)
    \/ \E u \in RunIds : AgentRaise(u)
    \/ \E u \in RunIds : Dispatch(u)
    \/ (DOMAIN listeners = {} /\ \E u \in RunIds : StreamEvents(u))
    \/ \E l \in ListenerIds : EventGenerator(l)
    \/ \E l \in ListenerIds : Disconnect(l)

RaceStreamSpec == Init /\ [][RaceStreamNext]_vars

\* The event loop runs every task that is ready: a dispatch loop whose queue
\* holds an event handles it, a judgement task that was created starts, and
\* the call of the judge model returns or raises (the client times out).
FairSpec ==
    /\ Spec
    /\ WF_vars(\E u \in RunIds : Dispatch(u))
    /\ WF_vars(\E i \in DOMAIN tasks : JudgeStart(i))
    /\ WF_vars(\E i \in DOMAIN tasks : JudgeReturn(i))

\* ------------------------------------------------------------- properties
JudgeTasksOf(r) == {i \in DOMAIN tasks : tasks[i].race = r}
BoundRuns(r) == {u \in DOMAIN runs : runs[u].race_id = Some(r)}
PendingEvents(u) == runs[u].dispatch = "waiting" /\ runs[u].queue # <<>>

\* C1: whatever the interleaving of agent events and human calls, a race has
\* at most one judgement task, so the judge is invoked at most once; the
\* finalizing flag is up exactly while that task has not finished, and a
\* verdict is stored exactly when it has.
C1_JudgedExactlyOnce ==
    \A r \in DOMAIN races :
        /\ Cardinality(JudgeTasksOf(r)) <= 1
        /\ races[r].finalizing <=> \E i \in JudgeTasksOf(r) : tasks[i].pc # "done"
        /\ races[r].verdict # None <=> \E i \in JudgeTasksOf(r) : tasks[i].pc = "done"

\* the judge is running and the human has submitted again since it was
\* called
C1_Witness ==
    \E r \in DOMAIN races : \E i \in JudgeTasksOf(r) :
        /\ tasks[i].pc = "awaiting"
        /\ races[r].finalizing
        /\ Val(tasks[i].args).human_submission # races[r].human_submission

\* C2: once a race holds a verdict, every step leaves the verdict as it is,
\* and a race that holds a verdict has status completed.
C2_VerdictIsFinal ==
    [][\A r \in DOMAIN races :
          /\ races[r].verdict # None => races'[r].verdict = races[r].verdict
          /\ races'[r].verdict # None => races'[r].status = "completed"]_vars

\* a verdict is stored, a second launch was refused and the human has
\* submitted again since the judge was called
C2_Witness ==
    \E r \in DOMAIN races : \E i \in JudgeTasksOf(r) :
        /\ races[r].verdict # None
        /\ response = "conflict"
        /\ Val(tasks[i].args).human_submission # races[r].human_submission

StatusRank(status) ==
    CASE status = "ready" -> 0
      [] status = "running" -> 1
      [] status = "awaiting_human" -> 2
      [] status = "judging" -> 3
      [] status = "completed" -> 4

\* C3: no step moves a race's status to an earlier stage of
\* ready < running < awaiting_human < judging < completed.
C3_StatusMonotonic ==
    [][\A r \in DOMAIN races :
          StatusRank(races'[r].status) >= StatusRank(races[r].status)]_vars

\* the human started after the agent had completed, and the race stayed
\* awaiting_human
C3_Witness ==
    \E r \in DOMAIN races :
        /\ races[r].status = "awaiting_human"
        /\ races[r].human.status = "running"

\* C4: a judgement task that has finished leaves its race completed, with a
\* verdict and finalizing cleared; when the judge raised, the verdict is a tie
\* with both scores 0.0 and a reasoning that embeds what was raised.
C4_JudgeFailureIsTie ==
    \A i \in DOMAIN tasks :
        tasks[i].pc = "done" =>
            LET race == races[tasks[i].race]
            IN /\ race.status = "completed"
               /\ ~race.finalizing
               /\ race.verdict # None
               /\ tasks[i].exc # None =>
                     race.verdict = Some([winner |-> "tie",
                                          reasoning |-> <<"Judging failed: ", Val(tasks[i].exc)>>,
                                          agent_score |-> 0, human_score |-> 0])

\* the judge answered with a score that is not a number
C4_Witness ==
    \E i \in DOMAIN tasks :
        /\ tasks[i].pc = "done"
        /\ tasks[i].exc = Some("Judge response human_score is not numeric")
        /\ races[tasks[i].race].status = "completed"

\* the four events of the test's executor, all dispatched, for a registered
\* text_entry race
FakeRunDelivered(r, u, result, url) ==
    /\ r \in RACE_STATES
    /\ races[r].task_type = "text_entry"
    /\ races[r].agent_run_id = Some(u)
    /\ runs[u].buffer = <<StatusEvent("running"), LiveUrlEvent(url),
                          ResultEvent(result), CompleteEvent>>

Completed(r) ==
    /\ r \in DOMAIN races
    /\ races[r].status = "completed"
    /\ races[r].verdict # None
    /\ races[r].human.status = "completed"

\* C5: for a text_entry race whose run delivered status:running, live_url,
\* result, complete, the agent shows status completed with that result and
\* that URL; the human's submission then takes the race to judging, and from
\* judging the race reaches completed with a verdict, which is the judge's
\* when the judge answered, and with the human completed.
C5_RaceFlow ==
    /\ [](\A r \in DOMAIN races, u \in DOMAIN runs, result \in AgentResults, url \in LiveUrls :
            FakeRunDelivered(r, u, result, url) =>
                /\ races[r].agent.status = "completed"
                /\ races[r].agent.result = Some(result)
                /\ races[r].agent.live_url = Some(url))
    /\ [][\A r \in DOMAIN races, u \in DOMAIN runs, result \in AgentResults, url \in LiveUrls :
            (/\ FakeRunDelivered(r, u, result, url)
             /\ races[r].human.status # "completed"
             /\ races'[r].human.status = "completed")
            => races'[r].status = "judging"]_vars
    /\ \A r \in RaceIds :
          (/\ r \in DOMAIN races
           /\ \E u \in DOMAIN runs, result \in AgentResults, url \in LiveUrls :
                 FakeRunDelivered(r, u, result, url)
           /\ races[r].status = "judging")
          ~> (/\ Completed(r)
              /\ \A i \in JudgeTasksOf(r) :
                    tasks[i].exc = None =>
                        races[r].verdict \in
                            {Some(judge_race(reply).verdict) :
                                reply \in {x \in JudgeReplies : ~judge_race(x).raised}})

\* the run of the test: the human submitted after the agent, the judge named
\* the human the winner
C5_Witness ==
    \E r \in DOMAIN races, u \in DOMAIN runs, result \in AgentResults, url \in LiveUrls :
        /\ FakeRunDelivered(r, u, result, url)
        /\ Completed(r)
        /\ Val(races[r].verdict).winner = "human"
        /\ races[r].human_submission = Some("Paris")
        /\ races[r].status = "completed"

\* a confirmation race whose human has submitted and whose agent has no
\* result and has not failed yet
AwaitingAgent(r) ==
    /\ r \in RACE_STATES
    /\ races[r].task_type = "confirmation"
    /\ races[r].human.status = "completed"
    /\ races[r].agent.result = None
    /\ races[r].agent.status # "error"

\* the same race once the error event was applied
AgentFailed(r) ==
    /\ r \in DOMAIN races
    /\ races[r].task_type = "confirmation"
    /\ races[r].human.status = "completed"
    /\ races[r].agent.result = None
    /\ races[r].agent.status = "error"

\* C6: in a confirmation race whose human has submitted, the step that
\* applies the agent's error event, with no result recorded and the complete
\* event not yet applied, sets finalizing, moves the race to judging and
\* creates the judgement task; the race then reaches completed with a verdict.
C6_ErrorAloneFinalizes ==
    /\ [][\A r \in DOMAIN races :
            (AwaitingAgent(r) /\ races'[r].agent.status = "error")
            => /\ races'[r].finalizing
               /\ races'[r].status = "judging"
               /\ tasks' = Append(tasks, JudgeTask(r))]_vars
    /\ \A r \in RaceIds : AgentFailed(r) ~> Completed(r)

\* the error was applied, the complete event of the run is still in the
\* queue, and the race is judging
C6_Witness ==
    \E r \in DOMAIN races : \E u \in BoundRuns(r) :
        /\ AgentFailed(r)
        /\ races[r].status = "judging"
        /\ races[r].finalizing
        /\ PendingEvents(u)
        /\ Head(runs[u].queue) = CompleteEvent

\* C7: a launch for a race that already has an agent run id is refused with
\* a conflict and leaves the race objects, the run-to-race index and the run
\* registry as they were; no step ever changes an agent run id that is set.
C7_SecondRunConflict ==
    /\ [](\A r \in RACE_STATES :
            (races[r].agent_run_id # None /\ DOMAIN runs # RunIds) =>
                \A t \in Clock :
                    LET out == launch_run(r, t)
                    IN /\ out.response = "conflict"
                       /\ out.races = races
                       /\ out.RUN_TO_RACE = RUN_TO_RACE
                       /\ out.run_states = run_states)
    /\ [][/\ \A r \in DOMAIN races :
               races[r].agent_run_id # None =>
                   races'[r].agent_run_id = races[r].agent_run_id
          /\ (response' = "conflict" /\ response # "conflict") =>
               /\ races' = races
               /\ RUN_TO_RACE' = RUN_TO_RACE
               /\ run_states' = run_states
               /\ \E r \in RACE_STATES : races[r].agent_run_id # None]_vars

\* a launch was refused after the first run completed, was detached from
\* the index and left the run registry
C7_Witness ==
    \E r \in RACE_STATES :
        /\ response = "conflict"
        /\ races[r].agent_run_id # None
        /\ races[r].agent.status = "completed"
        /\ RUN_TO_RACE = {}
        /\ run_states = {}

DurationConsistent(p) ==
    /\ p.duration_seconds # None <=> (p.started_at # None /\ p.completed_at # None)
    /\ p.duration_seconds # None =>
          Val(p.duration_seconds) = Val(p.completed_at) - Val(p.started_at)

\* C8: for the agent and the human of every race, duration_seconds is set
\* exactly when started_at and completed_at both are, and is their difference.
C8_DurationIsDifference ==
    \A r \in DOMAIN races :
        DurationConsistent(races[r].agent) /\ DurationConsistent(races[r].human)

\* the agent took one clock tick, the human has started and not finished
C8_Witness ==
    \E r \in DOMAIN races :
        /\ races[r].agent.duration_seconds = Some(1)
        /\ races[r].human.started_at # None
        /\ races[r].human.completed_at = None

IsPrefix(s, t) == Len(s) <= Len(t) /\ s = SubSeq(t, 1, Len(s))
OnlyLastIsComplete(s) ==
    \A k \in 1..Len(s) : s[k].type = "complete" => k = Len(s)
EndsWithComplete(s) == s # <<>> /\ s[Len(s)].type = "complete"

\* C9: what a listener's queue was given is exactly the run's replay buffer
\* for as long as its consumer is connected, whenever subscribe was called:
\* every event dispatched before and after, each once, in order.  After the
\* consumer left it is the buffer up to that moment.
C9_ReplayThenLive ==
    \A l \in DOMAIN listeners :
        LET buffer == runs[listeners[l].run].buffer
        IN IF listeners[l].pc = "get"
           THEN listeners[l].inbox = buffer
           ELSE IsPrefix(listeners[l].inbox, buffer)

\* a subscriber that came after three events were dispatched got them and
\* then a later one
C9_Witness ==
    \E l \in DOMAIN listeners :
        /\ listeners[l].pc = "get"
        /\ listeners[l].replayed >= 3
        /\ Len(listeners[l].inbox) > listeners[l].replayed

\* C10: a complete event is the last event of the replay buffer and of every
\* listener's queue, the dispatch loop has finished exactly when the buffer
\* ends with it, a listener that subscribed after that got the whole buffer,
\* and event_generator stops with the complete event it yields.
C10_StreamEndsWithComplete ==
    /\ \A u \in DOMAIN runs :
          /\ OnlyLastIsComplete(runs[u].buffer)
          /\ runs[u].dispatch = "finished" <=> EndsWithComplete(runs[u].buffer)
          /\ runs[u].dispatch = "finished" => runs[u].listeners = {}
                                              \/ \A l \in runs[u].listeners :
                                                    EndsWithComplete(listeners[l].inbox)
    /\ \A l \in DOMAIN listeners :
          /\ OnlyLastIsComplete(listeners[l].inbox)
          /\ listeners[l].late =>
                /\ listeners[l].inbox = runs[listeners[l].run].buffer
                /\ EndsWithComplete(listeners[l].inbox)
          /\ \A k \in 1..listeners[l].read :
                listeners[l].inbox[k].type = "complete" =>
                    /\ k = listeners[l].read
                    /\ listeners[l].pc = "closed"

\* the loop stopped with an event left in the run's queue, and a listener
\* that subscribed afterwards has read the buffer to its complete event
C10_Witness ==
    \E l \in DOMAIN listeners :
        /\ listeners[l].late
        /\ listeners[l].pc = "closed"
        /\ listeners[l].read = Len(listeners[l].inbox)
        /\ runs[listeners[l].run].queue # <<>>
        /\ runs[listeners[l].run].dispatch = "finished"

\* the events an executor can put on a run's queue
AgentEvents ==
    {StatusEvent(st) : st \in {"starting", "running", "completed"}}
    \cup {LiveUrlEvent(url) : url \in LiveUrls}
    \cup {ResultEvent(result) : result \in AgentResults}
    \cup {ErrorEvent, CompleteEvent, LogEvent}

\* the dispatch loop of run u took an event off its queue in this step
Dispatched(u) ==
    /\ u \in DOMAIN runs
    /\ runs[u].queue # <<>>
    /\ runs'[u].queue = Tail(runs[u].queue)
    /\ runs[u].dispatch = "waiting"

\* C11: handle_run_event, given a run id that the run-to-race index does not
\* hold (never registered, detached by its complete event, or removed by
\* clear_race), returns without raising, changes no race and no index entry
\* and creates no judgement task; a dispatch step for such a run leaves the
\* races, the three registries and the judgement tasks as they were and the
\* dispatch loop alive.
C11_UnknownRunDropped ==
    /\ [](\A u \in RunIds, event \in AgentEvents, t \in Clock :
            run_to_race_get(u) = {} =>
                handle_run_event(u, event, t) =
                    [raised |-> FALSE, races |-> races,
                     RUN_TO_RACE |-> RUN_TO_RACE, spawned |-> None])
    /\ [][\A u \in DOMAIN runs :
            (Dispatched(u) /\ run_to_race_get(u) = {}) =>
                /\ races' = races
                /\ RACE_STATES' = RACE_STATES
                /\ RUN_TO_RACE' = RUN_TO_RACE
                /\ run_states' = run_states
                /\ tasks' = tasks
                /\ runs'[u].dispatch # "failed"
                /\ runs'[u].buffer = Append(runs[u].buffer, Head(runs[u].queue))]_vars

\* the race was cleared before its run's result was dispatched: the human
\* had submitted, yet the result was not recorded and no judgement started
C11_Witness ==
    \E u \in DOMAIN runs : \E r \in DOMAIN races :
        /\ runs[u].race_id = Some(r)
        /\ r \notin RACE_STATES
        /\ \E k \in 1..Len(runs[u].buffer) : runs[u].buffer[k].type = "result"
        /\ races[r].agent.result = None
        /\ races[r].human_submission # None
        /\ races[r].task_type = "text_entry"
        /\ tasks = <<>>

\* C12: the step in which create_race fails with the task generator's error
\* was taken inside the critical section, inserts no race (the race objects
\* and the race registry are as before), reports the failure to the caller
\* and leaves _race_lock free, so a later create_race can enter it.
C12_CreateFailureLeavesNothing ==
    [][(response' = "task_generation_failed" /\ response # "task_generation_failed") =>
          /\ race_lock
          /\ ~race_lock'
          /\ races' = races
          /\ RACE_STATES' = RACE_STATES
          /\ RUN_TO_RACE' = RUN_TO_RACE]_vars

\* after a failed create_race a second one has entered the critical section
C12_Witness ==
    /\ response = "task_generation_failed"
    /\ race_lock
    /\ RACE_STATES = {}

\* C13: a run that has left the run registry had its executor task finished
\* and its dispatch loop stopped after a complete event, which is the last
\* event of its replay buffer; the step that removes a run finds both already
\* so.  Hence a run whose executor still runs, or whose complete event was not
\* dispatched yet, is in the registry.
C13_RemovedAfterBoth ==
    /\ [](\A u \in DOMAIN runs :
            u \notin run_states =>
                /\ runs[u].agent = "gone"
                /\ runs[u].dispatch = "finished"
                /\ runs[u].dispatch_done
                /\ EndsWithComplete(runs[u].buffer)
                /\ \A k \in 1..Len(runs[u].queue) : runs[u].queue[k].type # "complete")
    /\ [][\A u \in DOMAIN runs :
            (u \in run_states /\ u \notin run_states') =>
                /\ runs[u].agent \in {"returned", "raised"}
                /\ runs[u].dispatch_done
                /\ EndsWithComplete(runs[u].buffer)]_vars

\* the executor has finished, its last events are not dispatched yet, and
\* the run is still registered and has a subscriber
C13_Witness ==
    \E u \in run_states : \E l \in runs[u].listeners :
        /\ runs[u].agent \in {"returned", "raised"}
        /\ ~runs[u].dispatch_done
        /\ runs[u].queue # <<>>
        /\ listeners[l].pc = "get"

Winners == {"agent", "human", "tie"}

\* JSON answers with the four keys: any winner, each score numeric or not
JsonAnswers ==
    {[kind |-> "json", winner |-> w, agent_score |-> a, human_score |-> h] :
        w \in {"agent", "human", "tie", "HUMAN", "nobody"},
        a \in {Score(6), BadScore}, h \in {Score(8), BadScore}}

\* C14: every verdict stored on a race names agent, human or tie the winner.
\* judge_race turns an answer whose winner is none of the three (after
\* lowercasing) into a verdict with winner tie and the answer's scores,
\* without raising, and raises on an answer with a score that is not a
\* number; a judgement whose judge raised so has stored the tie verdict with
\* both scores 0.0.
C14_WinnerIsNormalised ==
    /\ \A r \in DOMAIN races :
          races[r].verdict # None => Val(races[r].verdict).winner \in Winners
    /\ \A reply \in JsonAnswers :
          LET out == judge_race(reply)
          IN IF reply.agent_score.numeric /\ reply.human_score.numeric
             THEN /\ ~out.raised
                  /\ out.verdict.winner =
                        (IF Lower(reply.winner) \in Winners
                         THEN Lower(reply.winner) ELSE "tie")
                  /\ out.verdict.agent_score = reply.agent_score.value
                  /\ out.verdict.human_score = reply.human_score.value
             ELSE /\ out.raised
                  /\ judged(RaceState("text_entry"), out).verdict =
                        Some([winner |-> "tie",
                              reasoning |-> <<"Judging failed: ", out.exc>>,
                              agent_score |-> 0, human_score |-> 0])
    /\ \A i \in DOMAIN tasks :
          (tasks[i].pc = "done" /\ tasks[i].exc # None) =>
              LET verdict == Val(races[tasks[i].race].verdict)
              IN /\ verdict.winner = "tie"
                 /\ verdict.agent_score = 0
                 /\ verdict.human_score = 0

\* the judge named a winner that is none of the three and the race holds a
\* tie verdict with the judge's scores
C14_Witness ==
    \E i \in DOMAIN tasks :
        /\ tasks[i].pc = "done"
        /\ tasks[i].exc = None
        /\ races[tasks[i].race].verdict =
              Some(judge_race(Reply("nobody", Score(8))).verdict)
        /\ Val(races[tasks[i].race].verdict).winner = "tie"
        /\ Val(races[tasks[i].race].verdict).human_score = 8

\* C15 (as claimed): the dispatch of a complete event for a run bound to a
\* race whose agent status is error leaves the agent status error.
C15_CompleteKeepsError ==
    [][\A u \in DOMAIN runs : \A r \in run_to_race_get(u) :
          (/\ Dispatched(u)
           /\ Head(runs[u].queue) = CompleteEvent
           /\ r \in RACE_STATES
           /\ races[r].agent.status = "error")
          => races'[r].agent.status = "error"]_vars

\* the error and complete events of a failed run were applied and the agent
\* shows completed, with no result
C15_Witness ==
    \E r \in RACE_STATES : \E u \in BoundRuns(r) :
        /\ runs[u].agent = "raised"
        /\ runs[u].dispatch = "finished"
        /\ races[r].agent.status = "completed"
        /\ races[r].agent.result = None

\* the events of run u that were dispatched include one of the given types
Delivered(u, types) ==
    \E k \in 1..Len(runs[u].buffer) : runs[u].buffer[k].type \in types

\* C16 (as claimed): whatever the order of arrival, a registered race whose
\* run delivered a result or an error event and whose human has submitted
\* has had its judgement triggered; and an agent that is ready (result
\* recorded or status error) is still ready after every step taken while no
\* verdict is stored.
C16_ReadinessOrderFree ==
    /\ [](\A r \in RACE_STATES : \A u \in BoundRuns(r) :
            (/\ Delivered(u, {"result", "error"})
             /\ races[r].human.status = "completed")
            => JudgeTasksOf(r) # {})
    /\ [][\A r \in DOMAIN races :
            (agent_ready(races[r]) /\ races[r].verdict = None)
            => agent_ready(races'[r])]_vars

\* the agent failed before the human submitted: the human has submitted,
\* no judgement was ever triggered and the race is awaiting_human
C16_Witness ==
    \E r \in RACE_STATES : \E u \in BoundRuns(r) :
        /\ Delivered(u, {"error"})
        /\ Delivered(u, {"complete"})
        /\ races[r].human.status = "completed"
        /\ races[r].human_submission # None
        /\ JudgeTasksOf(r) = {}
        /\ races[r].status = "awaiting_human"
        /\ ~agent_ready(races[r])

\* C17 (as claimed): the judge gets the values the race held when finalizing
\* was set.  From the step that creates a judgement task to the step in
\* which the task starts, no step changes the agent result, the human
\* submission or a duration of its race, and the task passes the judge the
\* values of that race.
C17_JudgeGetsSnapshot ==
    [][\A i \in DOMAIN tasks :
          tasks[i].pc = "spawned" =>
              IF tasks'[i].pc = "spawned"
              THEN JudgeInputs(races'[tasks[i].race]) = JudgeInputs(races[tasks[i].race])
              ELSE tasks'[i].args = Some(JudgeInputs(races[tasks[i].race]))]_vars

\* the judge was given a duration of an agent that has no result: judgement
\* was triggered by the error event, when the duration was still unset, and
\* the complete event dispatched next computed it before the task started
C17_Witness ==
    \E i \in DOMAIN tasks :
        /\ tasks[i].pc # "spawned"
        /\ Val(tasks[i].args).agent_result = None
        /\ Val(tasks[i].args).agent_duration # None
        /\ \E u \in BoundRuns(tasks[i].race) : Delivered(u, {"error"})

\* C18: a step sets finalizing only together with status judging and the
\* creation of the race's judgement task, on a race whose agent and human
\* are ready and that holds no verdict; a step clears it only when a
\* judgement task of the race finishes, storing a verdict; and finalizing
\* being set leads to finalizing being cleared, whether the judge returns or
\* raises.
C18_FinalizingSetAndCleared ==
    /\ [][\A r \in DOMAIN races :
            /\ (~races[r].finalizing /\ races'[r].finalizing) =>
                  /\ tasks' = Append(tasks, JudgeTask(r))
                  /\ races'[r].status = "judging"
                  /\ races[r].verdict = None
                  /\ agent_ready(races'[r]) /\ human_ready(races'[r])
            /\ (races[r].finalizing /\ ~races'[r].finalizing) =>
                  /\ \E i \in JudgeTasksOf(r) :
                        tasks[i].pc # "done" /\ tasks'[i].pc = "done"
                  /\ races'[r].verdict # None]_vars
    /\ \A r \in RaceIds :
          (r \in DOMAIN races /\ races[r].finalizing)
          ~> (r \in DOMAIN races /\ ~races[r].finalizing)

\* the judge raised before its first await (no API key) and finalizing is
\* cleared
C18_Witness ==
    \E i \in DOMAIN tasks :
        /\ tasks[i].pc = "done"
        /\ tasks[i].exc = Some("Missing OPENAI_API_KEY environment variable")
        /\ ~races[tasks[i].race].finalizing
        /\ races[tasks[i].race].verdict # None

\* C19: in every reachable state a race has status judging exactly when
\* finalizing is set, and then holds no verdict; it has status completed
\* exactly when it holds a verdict, and then finalizing is not set.
C19_StatusMatchesFlagAndVerdict ==
    \A r \in DOMAIN races :
        /\ races[r].status = "judging" <=> races[r].finalizing
        /\ races[r].finalizing => races[r].verdict = None
        /\ races[r].status = "completed" <=> races[r].verdict # None
        /\ races[r].verdict # None => ~races[r].finalizing

\* the complete event of the run was dispatched and detached the run while
\* the race was judging: the race is still judging, the judge is running
C19_Witness ==
    \E r \in DOMAIN races : \E u \in BoundRuns(r) : \E i \in JudgeTasksOf(r) :
        /\ races[r].status = "judging"
        /\ races[r].finalizing
        /\ tasks[i].pc = "awaiting"
        /\ runs[u].dispatch = "finished"
        /\ races[r].agent.status = "completed"
        /\ run_to_race_get(u) = {}

\* the race status a complete event is to leave
AfterComplete(race) ==
    IF race.status \notin {"judging", "completed"} /\ race.human.status # "completed"
    THEN "awaiting_human" ELSE race.status

\* C20: the complete branch of handle_run_event, applied to any race a
\* reachable state holds, leaves status awaiting_human exactly when the race
\* was neither judging nor completed and its human not completed, and the
\* status it had otherwise.  The step that dispatches the complete event of
\* a bound run leaves the race that status, removes the run from the
\* run-to-race index and keeps agent_run_id; a run of a race that is not in
\* the index is never put back.
C20_CompleteAdvancesAndDetaches ==
    /\ [](\A r \in DOMAIN races : \A t \in Clock :
            apply_event(races[r], CompleteEvent, t).status = AfterComplete(races[r]))
    /\ [][\A u \in DOMAIN runs :
            /\ \A r \in run_to_race_get(u) :
                  (Dispatched(u) /\ Head(runs[u].queue) = CompleteEvent) =>
                      /\ races'[r].status = AfterComplete(races[r])
                      /\ run_to_race_get(u)' = {}
                      /\ RUN_TO_RACE' = run_to_race_pop(RUN_TO_RACE, u)
                      /\ races'[r].agent_run_id = races[r].agent_run_id
                      /\ races'[r].agent_run_id = Some(u)
            /\ run_to_race_get(u) = {} => run_to_race_get(u)' = {}]_vars

\* the run completed before the human finished: the race is awaiting_human,
\* the run is out of the index with an event left in its queue, and the race
\* keeps its agent_run_id
C20_Witness ==
    \E r \in RACE_STATES : \E u \in BoundRuns(r) :
        /\ Delivered(u, {"complete"})
        /\ races[r].status = "awaiting_human"
        /\ races[r].human.status = "running"
        /\ run_to_race_get(u) = {}
        /\ races[r].agent_run_id = Some(u)
        /\ runs[u].queue # <<>>

\* C21: in every state another coroutine can observe (no dispatch loop is in
\* the middle of draining its queue), a race whose agent shows status
\* completed and whose run delivered no error event has the agent's result
\* recorded and completed_at set.
C21_CompletedHasResult ==
    \A r \in DOMAIN races :
        (/\ Idle
         /\ races[r].agent.status = "completed"
         /\ \A u \in BoundRuns(r) : ~Delivered(u, {"error"}))
        => /\ races[r].agent.result # None
           /\ races[r].agent.completed_at # None

\* run_agent returned: status completed, result and complete were applied
\* in one drain and the agent shows completed with its result
C21_Witness ==
    \E r \in DOMAIN races : \E u \in BoundRuns(r) :
        /\ Idle
        /\ executor = "run_agent"
        /\ Delivered(u, {"result"})
        /\ \E k \in 1..Len(runs[u].buffer) : runs[u].buffer[k] = StatusEvent("completed")
        /\ races[r].agent.status = "completed"
        /\ races[r].agent.result # None
        /\ races[r].agent.completed_at # None

\* C22: no step changes a completed_at or a duration_seconds that is set, of
\* the agent or of the human; and a result event, a complete event or a
\* human submission applied at any later clock reading to a race that a
\* reachable state holds leaves a completed_at that is set as it is.
C22_CompletedAtIsFinal ==
    /\ [][\A r \in DOMAIN races :
            /\ races[r].agent.completed_at # None =>
                  races'[r].agent.completed_at = races[r].agent.completed_at
            /\ races[r].human.completed_at # None =>
                  races'[r].human.completed_at = races[r].human.completed_at
            /\ races[r].agent.duration_seconds # None =>
                  races'[r].agent.duration_seconds = races[r].agent.duration_seconds
            /\ races[r].human.duration_seconds # None =>
                  races'[r].human.duration_seconds = races[r].human.duration_seconds]_vars
    /\ [](\A r \in DOMAIN races : \A t1 \in Clock : \A t2 \in t1..MaxTime :
            /\ races[r].agent.completed_at # None =>
                  \A event \in AgentEvents :
                      LET after == apply_event(races[r], event, t1).agent
                      IN /\ after.completed_at = races[r].agent.completed_at
                         /\ after.duration_seconds = races[r].agent.duration_seconds
            /\ races[r].human.completed_at # None =>
                  \A s \in Submissions :
                      LET after == human_submission(races[r], s, t1, t2).human
                      IN /\ after.completed_at = races[r].human.completed_at
                         /\ after.duration_seconds = races[r].human.duration_seconds)

\* the human submitted at reading 1, the agent finished at reading 2, and
\* the human submitted another text after the judge was called: both
\* completed_at keep their first value
C22_Witness ==
    \E r \in DOMAIN races : \E i \in JudgeTasksOf(r) :
        /\ races[r].human.completed_at = Some(1)
        /\ races[r].agent.completed_at = Some(2)
        /\ tasks[i].pc # "spawned"
        /\ Val(tasks[i].args).human_submission # races[r].human_submission
        /\ Delivered(races[r].agent_run_id[1], {"complete"})

\* the text record_human_submission is to store for a submission
StoredText(submission) ==
    IF submission \in {None, Some("")} THEN Some("") ELSE submission

\* C23: record_human_submission, applied with any submission at any clock
\* readings to any registered race of a reachable state (human pending,
\* running or completed), leaves the human completed with started_at,
\* completed_at and their difference as duration; on a text_entry race it
\* stores the text, or "" for an absent submission, as human_submission and
\* as the human's result, and the human is then ready for judgement.  A
\* race that holds a submission shows all this, and the step that stores the
\* first submission of a text_entry race whose agent is ready triggers the
\* judgement.
C23_SubmissionCompletesHuman ==
    /\ [](\A r \in RACE_STATES : \A s \in Submissions :
            \A t1 \in Clock : \A t2 \in t1..MaxTime :
                LET after == human_submission(races[r], s, t1, t2)
                IN /\ after.human.status = "completed"
                   /\ after.human.started_at # None
                   /\ after.human.completed_at # None
                   /\ after.human.duration_seconds =
                         Some(Val(after.human.completed_at) - Val(after.human.started_at))
                   /\ after.human_submission = StoredText(s)
                   /\ races[r].task_type = "text_entry" =>
                         /\ after.human.result = StoredText(s)
                         /\ human_ready(after))
    /\ [](\A r \in DOMAIN races :
            races[r].human_submission # None =>
                /\ races[r].human.status = "completed"
                /\ races[r].human.started_at # None
                /\ races[r].human.completed_at # None
                /\ races[r].human.duration_seconds # None
                /\ races[r].task_type = "text_entry" =>
                      races[r].human.result = races[r].human_submission)
    /\ [][\A r \in DOMAIN races :
            (/\ races[r].human_submission = None
             /\ races'[r].human_submission # None
             /\ races[r].task_type = "text_entry"
             /\ agent_ready(races[r]))
            => /\ races'[r].finalizing
               /\ tasks' = Append(tasks, JudgeTask(r))]_vars

\* a text_entry race was judged on an empty submission, sent after the
\* human had started
C23_Witness ==
    \E r \in DOMAIN races : \E i \in JudgeTasksOf(r) :
        /\ races[r].task_type = "text_entry"
        /\ races[r].human_submission = Some("")
        /\ races[r].human.result = Some("")
        /\ races[r].human.status = "completed"
        /\ races[r].human.duration_seconds = Some(1)
        /\ tasks[i].pc # "spawned"
        /\ Val(tasks[i].args).human_submission = Some("")

\* C24: mark_human_started, applied at any clock reading to any race of a
\* reachable state, returns the race as it is when the human is completed
\* or running; when the human is pending it sets the human running with
\* that reading as started_at, moves the race from ready to running and
\* leaves every other race status and every other field alone.  The step
\* in which a human starts creates no judgement task.
C24_HumanStartFrame ==
    /\ [](\A r \in DOMAIN races : \A t \in Clock :
            LET race == races[r]
                after == human_started(race, t)
            IN IF race.human.status \in {"completed", "running"}
               THEN after = race
               ELSE /\ after.human = [race.human EXCEPT !.status = "running",
                                                        !.started_at = Some(t)]
                    /\ after.status = (IF race.status = "ready" THEN "running"
                                       ELSE race.status)
                    /\ after = [race EXCEPT !.human = after.human,
                                            !.status = after.status])
    /\ [][\A r \in DOMAIN races :
            (races[r].human.status = "pending" /\ races'[r].human.status = "running")
            => /\ races'[r] = human_started(races[r], now')
               /\ tasks' = tasks
               /\ races'[r].finalizing = races[r].finalizing
               /\ RUN_TO_RACE' = RUN_TO_RACE]_vars

\* the human started before any agent run was launched: the race went from
\* ready to running
C24_Witness ==
    \E r \in RACE_STATES :
        /\ races[r].human.status = "running"
        /\ races[r].human.started_at # None
        /\ races[r].status = "running"
        /\ races[r].agent_run_id = None
        /\ races[r].agent = ParticipantState

\* the agent status that a sequence of events leaves, if any of them sets it
LastStatus(events) ==
    LET ks == {k \in 1..Len(events) : events[k].type \in {"status", "error", "complete"}}
    IN IF ks = {} THEN None
       ELSE LET k == CHOOSE i \in ks : \A j \in ks : j <= i
            IN Some(CASE events[k].type = "status" -> events[k].val
                      [] events[k].type = "error" -> "error"
                      [] OTHER -> "completed")

\* C25: what the subscriber of a run bound to a registered race has been
\* handed (replayed or live) is a prefix of the replay buffer, and the race
\* already shows it: the agent status is the one the last event of the
\* buffer that sets it leaves, and for the events handed over the race
\* holds the result of a result event with completed_at set, started_at
\* after status running, the URL of a live_url event, and after complete a
\* completed_at and no entry of the run in the run-to-race index.  The step that dispatches an event of a bound run applies it to
\* the race and, in the same step, appends it to the replay buffer and to
\* the queue of every subscriber.
C25_AppliedBeforeDelivered ==
    /\ [](\A l \in DOMAIN listeners : \A r \in RACE_STATES :
            runs[listeners[l].run].race_id = Some(r) =>
                LET agent == races[r].agent
                    got == listeners[l].inbox
                    all == runs[listeners[l].run].buffer
                IN /\ IsPrefix(got, all)
                   /\ LastStatus(all) # None => agent.status = Val(LastStatus(all))
                   /\ \A k \in 1..Len(got) :
                         /\ got[k].type = "result" =>
                               /\ agent.result = Some(got[k].val)
                               /\ agent.completed_at # None
                         /\ got[k] = StatusEvent("running") => agent.started_at # None
                         /\ got[k].type = "live_url" =>
                               agent.live_url = Some(got[k].val)
                         /\ got[k].type = "complete" =>
                               /\ agent.completed_at # None
                               /\ run_to_race_get(listeners[l].run) = {})
    /\ [][\A u \in DOMAIN runs : \A r \in run_to_race_get(u) :
            Dispatched(u) =>
                LET event == Head(runs[u].queue)
                IN /\ \E t \in Clock :
                         races'[r] = maybe_finalize(apply_event(races[r], event, t))
                   /\ runs'[u].buffer = Append(runs[u].buffer, event)
                   /\ \A l \in runs[u].listeners :
                         listeners'[l].inbox = Append(listeners[l].inbox, event)]_vars

\* a subscriber of the run of a registered race was replayed the start of
\* the stream, was handed the result and the complete event live and has
\* read them all; the race shows the result and the agent completed
C25_Witness ==
    \E l \in DOMAIN listeners : \E r \in RACE_STATES :
        /\ runs[listeners[l].run].race_id = Some(r)
        /\ listeners[l].replayed > 0
        /\ listeners[l].replayed < Len(listeners[l].inbox)
        /\ listeners[l].read = Len(listeners[l].inbox)
        /\ \E k \in 1..Len(listeners[l].inbox) : listeners[l].inbox[k].type = "result"
        /\ \E k \in 1..Len(listeners[l].inbox) : listeners[l].inbox[k].type = "complete"
        /\ races[r].agent.result # None
        /\ races[r].agent.status = "completed"

\* the events an executor has put for its run, dispatched or not
Emitted(u) == runs[u].buffer \o runs[u].queue

\* C26 (as claimed): an executor that has ended, by returning or by an
\* exception, has put a complete event for its run; one that ended by an
\* exception has put an error event before it; and once the executor has
\* ended and no event of the run is left to dispatch, the dispatch loop of
\* the run has finished.
C26_EveryRunCompletes ==
    \A u \in DOMAIN runs :
        LET events == Emitted(u)
        IN /\ runs[u].agent \in {"returned", "raised", "crashed"} =>
                 \E k \in 1..Len(events) : events[k] = CompleteEvent
           /\ runs[u].agent \in {"raised", "crashed"} =>
                 \E j, k \in 1..Len(events) :
                     j < k /\ events[j] = ErrorEvent /\ events[k] = CompleteEvent
           /\ (/\ Idle
               /\ runs[u].agent \in {"returned", "raised", "crashed"}
               /\ runs[u].queue = <<>>)
              => runs[u].dispatch = "finished"

\* run_agent raised between its first put and its try block: the run's only
\* event, status starting, was dispatched, the dispatch loop waits on an
\* empty queue, the run stays in the run registry and the race shows the
\* agent starting
C26_Witness ==
    \E r \in RACE_STATES : \E u \in BoundRuns(r) :
        /\ Idle
        /\ runs[u].agent = "crashed"
        /\ runs[u].buffer = <<StatusEvent("starting")>>
        /\ runs[u].queue = <<>>
        /\ runs[u].dispatch = "waiting"
        /\ u \in run_states
        /\ races[r].agent.status = "starting"
        /\ ~agent_ready(races[r])

\* C27: in every reachable state every race id of the run-to-race index is
\* in the race registry, routing any agent event of any run raises no
\* unknown-race error and no dispatch loop has died of one.  A step that
\* takes a race out of the registry takes out, with it, exactly the index
\* entries that point to it; a step adds an index entry only for a race in
\* the registry; and no step, the end of a judgement included, puts a
\* cleared race back.
C27_IndexWithinRegistry ==
    /\ [](/\ \A q \in RUN_TO_RACE : q[2] \in RACE_STATES
          /\ \A u \in DOMAIN runs :
                /\ runs[u].dispatch # "failed"
                /\ \A event \in AgentEvents : \A t \in Clock :
                      ~handle_run_event(u, event, t).raised)
    /\ [][/\ \A r \in RACE_STATES \ RACE_STATES' :
                RUN_TO_RACE' = {q \in RUN_TO_RACE : q[2] # r}
          /\ \A q \in RUN_TO_RACE' \ RUN_TO_RACE : q[2] \in RACE_STATES
          /\ \A r \in DOMAIN races : r \notin RACE_STATES => r \notin RACE_STATES']_vars

\* a race was cleared while its agent run was going: the run is out of the
\* index, events of it were applied before and one is waiting to be routed
C27_Witness ==
    \E r \in DOMAIN races \ RACE_STATES : \E u \in BoundRuns(r) :
        /\ Idle
        /\ run_to_race_get(u) = {}
        /\ runs[u].dispatch = "waiting"
        /\ runs[u].buffer # <<>>
        /\ runs[u].queue # <<>>
        /\ ~Delivered(u, {"complete"})

\* URLs a live_url event may carry: the one the executors send and another
EventUrls == LiveUrls \cup {"https://live.browser-use.com/other"}

\* the live_url events among the events of a run
LiveUrlEvents(u) ==
    {k \in 1..Len(Emitted(u)) : Emitted(u)[k].type = "live_url"}

C29_SubscribersIndependent ==
    /\ [][\A l \in DOMAIN listeners :
            (listeners'[l].pc # listeners[l].pc \/ listeners'[l].read # listeners[l].read)
            => LET u == listeners[l].run
               IN /\ runs' = [runs EXCEPT ![u].listeners = runs'[u].listeners]
                  /\ runs'[u].listeners \in {runs[u].listeners, runs[u].listeners \ {l}}
                  /\ listeners'[l].inbox = listeners[l].inbox
                  /\ \A m \in DOMAIN listeners \ {l} : listeners'[m] = listeners[m]
                  /\ DOMAIN listeners' = DOMAIN listeners
                  /\ run_states' = run_states
                  /\ races' = races /\ RUN_TO_RACE' = RUN_TO_RACE]_vars
    /\ [][\A u \in DOMAIN runs :
            Dispatched(u) =>
                LET event == Head(runs[u].queue)
                IN /\ runs'[u].buffer = Append(runs[u].buffer, event)
                   /\ \A l \in DOMAIN listeners :
                         listeners'[l] =
                             IF l \in runs[u].listeners
                             THEN [listeners[l] EXCEPT !.inbox = Append(@, event)]
                             ELSE listeners[l]]_vars
    /\ [](/\ \A l \in DOMAIN listeners :
                LET u == listeners[l].run
                IN /\ l \in runs[u].listeners => listeners[l].inbox = runs[u].buffer
                   /\ (listeners[l].pc = "get" /\ ~runs[u].dispatch_done)
                          => l \in runs[u].listeners
                   /\ IsPrefix(listeners[l].inbox, runs[u].buffer)
          /\ \A u \in DOMAIN runs :
                (/\ cur \in {None, Some(u)}
                 /\ runs[u].dispatch = "waiting"
                 /\ runs[u].queue # <<>>)
                => ENABLED Dispatch(u))

\* one subscriber disconnected without having read any of the events it
\* held; the run went on, and the other subscriber has read the whole
\* replay buffer up to the complete event
C29_Witness ==
    \E l, m \in DOMAIN listeners :
        LET u == listeners[m].run
        IN /\ l # m
           /\ listeners[l].run = u
           /\ listeners[l].pc = "closed"
           /\ listeners[l].read = 0
           /\ listeners[l].inbox # <<>>
           /\ Len(listeners[l].inbox) < Len(runs[u].buffer)
           /\ listeners[m].inbox = runs[u].buffer
           /\ listeners[m].read = Len(runs[u].buffer)
           /\ EndsWithComplete(runs[u].buffer)
           /\ runs[u].agent = "returned"
====
